---- MODULE Spec2Model ----
\* Signalling functions of comms-link (sessionOffer, getOffer, sessionAnswer,
\* getAnswer) over the Firestore collection "sessions".  Every handler is an
\* async function: the code between two awaits runs as one step, and the
\* Firestore get / set it awaits commits as a step of its own, so handlers of
\* concurrent requests interleave at their awaits.
EXTENDS Integers, Sequences, FiniteSets, Bags, TLC

\* ---------------------------------------------------------------- bounds
\* Number of requests that can be in flight (awaiting the store) at the same time.
MaxHandlers == 2

\* Longest identifier the validator accepts (length > 100 is rejected).
MaxIDLength == 100

\* ---------------------------------------------------------------- values
\* An optional JavaScript value (a request field, a document field) is <<>>
\* when it is undefined and <<v>> when it is the string v.
undefined == <<>>
Some(v) == <<v>>

\* a ?? ""
Coalesce(v) == IF v = undefined THEN "" ELSE v[1]

\* JavaScript truthiness of an optional string: undefined and "" are falsy.
Truthy(v) == v # undefined /\ v[1] # ""

\* Identifiers are strings whose length matters: sequences of characters.
IDOfLength(n) == [i \in 1..n |-> "a"]

\* Identifiers and request fields the requests are drawn from.
\* (an undefined sessionID is read as the empty string)
SessionIDs == {undefined, Some(IDOfLength(1)), Some(IDOfLength(MaxIDLength + 1))}
Passwords == {undefined, Some(""), Some("p"), Some("q")}
Offers == {undefined, Some(""), Some("o1"), Some("o2")}
Answers == {undefined, Some(""), Some("a1"), Some("a2")}

\* request.body.sessionID?.toString() ?? ""  (the empty string is <<>> as a sequence)
sessionIDOf(v) == IF v = undefined THEN IDOfLength(0) ELSE v[1]

\* ---------------------------------------------------------------- responses
sendSuccessResponse(data) ==
  [status |-> 200, success |-> TRUE, data |-> data, error |-> undefined]

sendErrorResponse(status, message) ==
  [status |-> status, success |-> FALSE, data |-> undefined, error |-> Some(message)]

\* A rejected await outside the handler's try block: the handler ends with an
\* unhandled rejection and sends no response at all.
unhandledRejection ==
  [status |-> 0, success |-> FALSE, data |-> undefined, error |-> undefined]

\* The failure kinds, as the responses the code sends for them.
InvalidIdentifier == sendErrorResponse(403, "Invalid session ID")
InvalidOffer == sendErrorResponse(403, "Invalid offer")
SessionNotFound == sendErrorResponse(404, "Session offer not found")
PasswordMismatch == sendErrorResponse(403, "Invalid or incorrect password")
OfferNotFound == sendErrorResponse(403, "Session offer not found")
AnswerNotFound == sendErrorResponse(404, "Session answer not found")
SessionDoesNotExist == sendErrorResponse(403, "Session does not exist")
StorageFailure == sendErrorResponse(500, "Error: store")
Acknowledged == sendSuccessResponse(Some("Success"))

\* ---------------------------------------------------------------- validator
\* Variant: sessionID.length >= 100 is rejected.
isValidSessionID_exclusive(sessionID) ==
  IF sessionID = <<>> \/ Len(sessionID) >= MaxIDLength THEN FALSE ELSE TRUE

isValidSessionID(sessionID) ==
  IF sessionID = <<>> \/ Len(sessionID) > MaxIDLength THEN FALSE ELSE TRUE

\* ---------------------------------------------------------------- the store
\* A document is a function from the names of the fields it has to strings.
noFields == [f \in {} |-> ""]

\* DocumentSnapshot of a read: undefined when there is no document.
snapshotOf(st, id) == IF id \in DOMAIN st THEN Some(st[id]) ELSE undefined

\* Variant: a snapshot that always reports a document.
exists_always(snapshot) == TRUE

\* sessionDocumentData.exists
exists(snapshot) == snapshot # undefined

\* sessionDocumentData.get(field): undefined when the document or the field is missing.
fieldOf(snapshot, field) ==
  IF snapshot # undefined /\ field \in DOMAIN snapshot[1]
    THEN Some(snapshot[1][field])
    ELSE undefined

\* Variant: the fields the document already has are kept (first write wins).
mergeFields_keep(old, data) ==
  [f \in DOMAIN old \cup DOMAIN data |-> IF f \in DOMAIN old THEN old[f] ELSE data[f]]

\* Variant: set without {merge: true}, the document becomes data.
mergeFields_replace(old, data) == data

\* set(data, {merge: true}) on one document: the fields of data replace the
\* fields of the same name, every other field stays.
mergeFields(old, data) ==
  [f \in DOMAIN old \cup DOMAIN data |-> IF f \in DOMAIN data THEN data[f] ELSE old[f]]

\* doc(id).set(data, {merge: true}): creates the document when it is missing.
setMerge(st, id, data) ==
  [k \in DOMAIN st \cup {id} |->
     IF k = id
       THEN mergeFields(IF id \in DOMAIN st THEN st[id] ELSE noFields, data)
       ELSE st[k]]

\* ---------------------------------------------------------------- handler data
\* Variant: the offer object also resets the answer.
offerData_clearing(password, offer) ==
  [f \in {"password", "offer", "answer"} |->
     IF f = "password" THEN Coalesce(password)
     ELSE IF f = "offer" THEN Coalesce(offer) ELSE ""]

\* const offer: SessionData = {password: body.password ?? "", offer: body.offer ?? ""}
offerData(password, offer) ==
  [f \in {"password", "offer"} |->
     IF f = "password" THEN Coalesce(password) ELSE Coalesce(offer)]

\* Variant: the answer object carries an empty password as well.
answerData_withPassword(answer) ==
  [f \in {"answer", "password"} |-> IF f = "answer" THEN Coalesce(answer) ELSE ""]

\* const answer: SessionData = {answer: request.body.answer ?? ""}
answerData(answer) == [f \in {"answer"} |-> Coalesce(answer)]

\* Variant: if (!storedPassword || requestPassword != storedPassword) reject
passwordRejected_inverted(storedPassword, requestPassword) ==
  ~Truthy(storedPassword) \/ requestPassword # storedPassword[1]

\* Variant: if (requestPassword != storedPassword) reject, also with no stored password
passwordRejected_strict(storedPassword, requestPassword) ==
  requestPassword # Coalesce(storedPassword)

\* if (storedPassword) { if (requestPassword != storedPassword) reject }
passwordRejected(storedPassword, requestPassword) ==
  Truthy(storedPassword) /\ requestPassword # storedPassword[1]

\* ---------------------------------------------------------------- state
VARIABLES
  store,      \* collection "sessions": session ID -> document
  handlers,   \* bag of the handlers awaiting the store: which await, and the handler's locals
  sent,       \* what the last step sent: a function's response, or nothing
  published,  \* history: per session ID, the data of the last sessionOffer set that committed
  answered    \* history: per session ID, the data of the last sessionAnswer set that committed

vars == <<store, handlers, sent, published, answered>>

\* A handler at an await, with its locals: sessionID, requestPassword, the offer
\* object of sessionOffer, and the answer object sessionAnswer will set
\* ({answer: request.body.answer ?? ""}, a function of the request alone, which
\* the code builds right before its set).
awaiting(pc, op, sessionID, requestPassword, offer, answer) ==
  [pc |-> pc, op |-> op, sessionID |-> sessionID, requestPassword |-> requestPassword,
   offer |-> offer, answer |-> answer]

\* What a step sends: the function that responds, and its response.
reply(op, response, raced) ==
  [op |-> op, response |-> response, raced |-> raced]

\* A step that sends no response.
silent == reply("none", unhandledRejection, FALSE)

\* A new request starts while fewer than MaxHandlers are in flight.
accepting == BagCardinality(handlers) < MaxHandlers

start(handler) == handlers (+) SetToBag({handler})
finish(handler) == handlers (-) SetToBag({handler})

ValidIDs == {sessionIDOf(v) : v \in {w \in SessionIDs : isValidSessionID(sessionIDOf(w))}}

Init ==
  /\ store = [k \in {} |-> noFields]
  /\ handlers = EmptyBag
  /\ sent = silent
  /\ published = [k \in ValidIDs |-> undefined]
  /\ answered = [k \in ValidIDs |-> undefined]

\* Variant of sessionOfferRequest without the check of the offer.
sessionOfferRequest_unchecked(body) ==
  LET sessionID == sessionIDOf(body.sessionID)
      offer == offerData(body.password, body.offer)
  IN /\ accepting
     /\ IF ~isValidSessionID(sessionID)
          THEN /\ sent' = reply("sessionOffer", InvalidIdentifier, FALSE)
               /\ UNCHANGED handlers
          ELSE /\ handlers' = start(awaiting("set", "sessionOffer", sessionID, "", offer, noFields))
               /\ sent' = silent
     /\ UNCHANGED <<store, published, answered>>

\* Variant of sessionOfferSet whose rejected set has written the document all the same.
sessionOfferSet_partial(h, ok) ==
  /\ BagIn(h, handlers)
  /\ h.pc = "set"
  /\ h.op = "sessionOffer"
  /\ store' = setMerge(store, h.sessionID, h.offer)
  /\ IF ok
       THEN /\ published' = [published EXCEPT ![h.sessionID] = Some(h.offer)]
            /\ sent' = reply("sessionOffer", Acknowledged, FALSE)
       ELSE /\ sent' = reply("sessionOffer", StorageFailure, FALSE)
            /\ UNCHANGED published
  /\ handlers' = finish(h)
  /\ UNCHANGED answered

\* ---------------------------------------------------------------- sessionOffer
\* Variant of sessionOfferRequest that checks the offer before the session ID.
sessionOfferRequest_offerFirst(body) ==
  LET sessionID == sessionIDOf(body.sessionID)
      offer == offerData(body.password, body.offer)
  IN /\ accepting
     /\ IF ~Truthy(Some(offer["offer"]))
          THEN /\ sent' = reply("sessionOffer", InvalidOffer, FALSE)
               /\ UNCHANGED handlers
          ELSE IF ~isValidSessionID(sessionID)
            THEN /\ sent' = reply("sessionOffer", InvalidIdentifier, FALSE)
                 /\ UNCHANGED handlers
            ELSE /\ handlers' = start(awaiting("set", "sessionOffer", sessionID, "", offer, noFields))
                 /\ sent' = silent
     /\ UNCHANGED <<store, published, answered>>

\* Lines 41-61: validation and the offer object, up to the await of set.
sessionOfferRequest(body) ==
  LET sessionID == sessionIDOf(body.sessionID)
      offer == offerData(body.password, body.offer)
  IN /\ accepting
     /\ IF ~isValidSessionID(sessionID)
          THEN /\ sent' = reply("sessionOffer", InvalidIdentifier, FALSE)
               /\ UNCHANGED handlers
          ELSE IF ~Truthy(Some(offer["offer"]))
            THEN /\ sent' = reply("sessionOffer", InvalidOffer, FALSE)
                 /\ UNCHANGED handlers
            ELSE /\ handlers' = start(awaiting("set", "sessionOffer", sessionID, "", offer, noFields))
                 /\ sent' = silent
     /\ UNCHANGED <<store, published, answered>>

\* Lines 63-68: the set commits (ok) or rejects, and the handler responds.
sessionOfferSet(h, ok) ==
  /\ BagIn(h, handlers)
  /\ h.pc = "set"
  /\ h.op = "sessionOffer"
  /\ IF ok
       THEN /\ store' = setMerge(store, h.sessionID, h.offer)
            /\ published' = [published EXCEPT ![h.sessionID] = Some(h.offer)]
            /\ sent' = reply("sessionOffer", Acknowledged, FALSE)
       ELSE /\ sent' = reply("sessionOffer", StorageFailure, FALSE)
            /\ UNCHANGED <<store, published>>
  /\ handlers' = finish(h)
  /\ UNCHANGED answered

\* ---------------------------------------------------------------- getOffer
\* Lines 76-86: validation, up to the await of get.
getOfferRequest(query) ==
  LET sessionID == sessionIDOf(query.sessionID)
      requestPassword == Coalesce(query.password)
  IN /\ accepting
     /\ IF ~isValidSessionID(sessionID)
          THEN /\ sent' = reply("getOffer", InvalidIdentifier, FALSE)
               /\ UNCHANGED handlers
          ELSE /\ handlers' = start(awaiting("get", "getOffer", sessionID, requestPassword, noFields, noFields))
               /\ sent' = silent
     /\ UNCHANGED <<store, published, answered>>

\* Variant of getOfferGet that removes the document once its offer was fetched.
getOfferGet_consuming(h, ok) ==
  LET sessionDocumentData == snapshotOf(store, h.sessionID)
      offer == fieldOf(sessionDocumentData, "offer")
      storedPassword == fieldOf(sessionDocumentData, "password")
      response ==
        IF ~ok THEN unhandledRejection
        ELSE IF exists(sessionDocumentData)
          THEN IF passwordRejected(storedPassword, h.requestPassword)
                 THEN PasswordMismatch
                 ELSE sendSuccessResponse(offer)
          ELSE SessionNotFound
  IN /\ BagIn(h, handlers)
     /\ h.pc = "get"
     /\ h.op = "getOffer"
     /\ sent' = reply("getOffer", response, FALSE)
     /\ handlers' = finish(h)
     /\ store' = IF response.success
                   THEN [k \in DOMAIN store \ {h.sessionID} |-> store[k]]
                   ELSE store
     /\ UNCHANGED <<published, answered>>

\* Variant of getOfferGet that answers a wrong password like a missing session.
getOfferGet_conflating(h, ok) ==
  LET sessionDocumentData == snapshotOf(store, h.sessionID)
      offer == fieldOf(sessionDocumentData, "offer")
      storedPassword == fieldOf(sessionDocumentData, "password")
      response ==
        IF ~ok THEN unhandledRejection
        ELSE IF exists(sessionDocumentData)
                /\ ~passwordRejected(storedPassword, h.requestPassword)
          THEN sendSuccessResponse(offer)
          ELSE SessionNotFound
  IN /\ BagIn(h, handlers)
     /\ h.pc = "get"
     /\ h.op = "getOffer"
     /\ sent' = reply("getOffer", response, FALSE)
     /\ handlers' = finish(h)
     /\ UNCHANGED <<store, published, answered>>

\* Lines 86-106: the get returns the document (ok) or rejects; the await is
\* outside the try block, so a rejection is not caught.
getOfferGet(h, ok) ==
  LET sessionDocumentData == snapshotOf(store, h.sessionID)
      offer == fieldOf(sessionDocumentData, "offer")
      storedPassword == fieldOf(sessionDocumentData, "password")
      response ==
        IF ~ok THEN unhandledRejection
        ELSE IF exists(sessionDocumentData)
          THEN IF passwordRejected(storedPassword, h.requestPassword)
                 THEN PasswordMismatch
                 ELSE sendSuccessResponse(offer)
          ELSE SessionNotFound
  IN /\ BagIn(h, handlers)
     /\ h.pc = "get"
     /\ h.op = "getOffer"
     /\ sent' = reply("getOffer", response, FALSE)
     /\ handlers' = finish(h)
     /\ UNCHANGED <<store, published, answered>>

\* ---------------------------------------------------------------- sessionAnswer
\* Lines 114-125: validation, up to the await of get.
sessionAnswerRequest(body) ==
  LET sessionID == sessionIDOf(body.sessionID)
      requestPassword == Coalesce(body.password)
  IN /\ accepting
     /\ IF ~isValidSessionID(sessionID)
          THEN /\ sent' = reply("sessionAnswer", InvalidIdentifier, FALSE)
               /\ UNCHANGED handlers
          ELSE /\ handlers' = start(awaiting("get", "sessionAnswer", sessionID, requestPassword,
                                             noFields, answerData(body.answer)))
               /\ sent' = silent
     /\ UNCHANGED <<store, published, answered>>

\* Lines 125-148: the get returns (ok) or rejects uncaught; the checks on the
\* snapshot either respond or go on to the await of set.
sessionAnswerGet(h, ok) ==
  LET sessionDocumentData == snapshotOf(store, h.sessionID)
      storedPassword == fieldOf(sessionDocumentData, "password")
      response ==
        IF ~ok THEN unhandledRejection
        ELSE IF exists(sessionDocumentData)
          THEN IF passwordRejected(storedPassword, h.requestPassword)
                 THEN PasswordMismatch
                 ELSE IF ~Truthy(fieldOf(sessionDocumentData, "offer"))
                   THEN OfferNotFound
                   ELSE Acknowledged
          ELSE SessionNotFound
  IN /\ BagIn(h, handlers)
     /\ h.pc = "get"
     /\ h.op = "sessionAnswer"
     /\ IF response = Acknowledged
          THEN /\ handlers' = finish(h) (+) SetToBag({[h EXCEPT !.pc = "set"]})
               /\ sent' = silent
          ELSE /\ sent' = reply("sessionAnswer", response, FALSE)
               /\ handlers' = finish(h)
     /\ UNCHANGED <<store, published, answered>>

\* Variant of sessionAnswerSet whose rejected set has written the answer all the same.
sessionAnswerSet_partial(h, ok) ==
  /\ BagIn(h, handlers)
  /\ h.pc = "set"
  /\ h.op = "sessionAnswer"
  /\ store' = setMerge(store, h.sessionID, h.answer)
  /\ answered' = [answered EXCEPT ![h.sessionID] = Some(h.answer)]
  /\ sent' = reply("sessionAnswer", IF ok THEN Acknowledged ELSE StorageFailure, FALSE)
  /\ handlers' = finish(h)
  /\ UNCHANGED published

\* Lines 143-151: the set of the answer object commits (ok) or rejects.
\* raced records that another sessionAnswer on the same session had finished
\* its get and not yet its set when this set committed.
sessionAnswerSet(h, ok) ==
  LET raced == \E g \in BagToSet(finish(h)) :
                 g.pc = "set" /\ g.op = "sessionAnswer" /\ g.sessionID = h.sessionID
  IN /\ BagIn(h, handlers)
     /\ h.pc = "set"
     /\ h.op = "sessionAnswer"
     /\ IF ok
          THEN /\ store' = setMerge(store, h.sessionID, h.answer)
               /\ answered' = [answered EXCEPT ![h.sessionID] = Some(h.answer)]
               /\ sent' = reply("sessionAnswer", Acknowledged, raced)
          ELSE /\ sent' = reply("sessionAnswer", StorageFailure, FALSE)
               /\ UNCHANGED <<store, answered>>
     /\ handlers' = finish(h)
     /\ UNCHANGED published

\* ---------------------------------------------------------------- getAnswer
\* Lines 158-167: validation, up to the await of get.
getAnswerRequest(query) ==
  LET sessionID == sessionIDOf(query.sessionID)
  IN /\ accepting
     /\ IF ~isValidSessionID(sessionID)
          THEN /\ sent' = reply("getAnswer", InvalidIdentifier, FALSE)
               /\ UNCHANGED handlers
          ELSE /\ handlers' = start(awaiting("get", "getAnswer", sessionID, "", noFields, noFields))
               /\ sent' = silent
     /\ UNCHANGED <<store, published, answered>>

\* Variant of getAnswerGet that applies the password check of getOffer (to no request password).
getAnswerGet_gated(h, ok) ==
  LET sessionDocumentData == snapshotOf(store, h.sessionID)
      answer == fieldOf(sessionDocumentData, "answer")
      storedPassword == fieldOf(sessionDocumentData, "password")
      response ==
        IF ~ok THEN unhandledRejection
        ELSE IF exists(sessionDocumentData)
          THEN IF passwordRejected(storedPassword, h.requestPassword)
                 THEN PasswordMismatch
                 ELSE IF Truthy(answer)
                   THEN sendSuccessResponse(answer)
                   ELSE AnswerNotFound
          ELSE SessionDoesNotExist
  IN /\ BagIn(h, handlers)
     /\ h.pc = "get"
     /\ h.op = "getAnswer"
     /\ sent' = reply("getAnswer", response, FALSE)
     /\ handlers' = finish(h)
     /\ UNCHANGED <<store, published, answered>>

\* Variant of getAnswerGet that tests answer !== undefined instead of its truthiness.
getAnswerGet_definedOnly(h, ok) ==
  LET sessionDocumentData == snapshotOf(store, h.sessionID)
      answer == fieldOf(sessionDocumentData, "answer")
      response ==
        IF ~ok THEN unhandledRejection
        ELSE IF exists(sessionDocumentData)
          THEN IF answer # undefined
                 THEN sendSuccessResponse(answer)
                 ELSE AnswerNotFound
          ELSE SessionDoesNotExist
  IN /\ BagIn(h, handlers)
     /\ h.pc = "get"
     /\ h.op = "getAnswer"
     /\ sent' = reply("getAnswer", response, FALSE)
     /\ handlers' = finish(h)
     /\ UNCHANGED <<store, published, answered>>

\* Variant of getAnswerGet that reads the offer field (as getOffer does).
getAnswerGet_readsOffer(h, ok) ==
  LET sessionDocumentData == snapshotOf(store, h.sessionID)
      answer == fieldOf(sessionDocumentData, "offer")
      response ==
        IF ~ok THEN unhandledRejection
        ELSE IF exists(sessionDocumentData)
          THEN IF Truthy(answer)
                 THEN sendSuccessResponse(answer)
                 ELSE AnswerNotFound
          ELSE SessionDoesNotExist
  IN /\ BagIn(h, handlers)
     /\ h.pc = "get"
     /\ h.op = "getAnswer"
     /\ sent' = reply("getAnswer", response, FALSE)
     /\ handlers' = finish(h)
     /\ UNCHANGED <<store, published, answered>>

\* Lines 167-183: the get returns (ok) or rejects uncaught.
getAnswerGet(h, ok) ==
  LET sessionDocumentData == snapshotOf(store, h.sessionID)
      answer == fieldOf(sessionDocumentData, "answer")
      response ==
        IF ~ok THEN unhandledRejection
        ELSE IF exists(sessionDocumentData)
          THEN IF Truthy(answer)
                 THEN sendSuccessResponse(answer)
                 ELSE AnswerNotFound
          ELSE SessionDoesNotExist
  IN /\ BagIn(h, handlers)
     /\ h.pc = "get"
     /\ h.op = "getAnswer"
     /\ sent' = reply("getAnswer", response, FALSE)
     /\ handlers' = finish(h)
     /\ UNCHANGED <<store, published, answered>>

\* ---------------------------------------------------------------- specification
OfferBodies == [sessionID : SessionIDs, password : Passwords, offer : Offers]
OfferQueries == [sessionID : SessionIDs, password : Passwords]
AnswerBodies == [sessionID : SessionIDs, password : Passwords, answer : Answers]
AnswerQueries == [sessionID : SessionIDs]

Next ==
  \/ \E body \in OfferBodies : sessionOfferRequest(body)
  \/ \E h \in BagToSet(handlers), ok \in BOOLEAN : sessionOfferSet(h, ok)
  \/ \E query \in OfferQueries : getOfferRequest(query)
  \/ \E h \in BagToSet(handlers), ok \in BOOLEAN : getOfferGet(h, ok)
  \/ \E body \in AnswerBodies : sessionAnswerRequest(body)
  \/ \E h \in BagToSet(handlers), ok \in BOOLEAN : sessionAnswerGet(h, ok)
  \/ \E h \in BagToSet(handlers), ok \in BOOLEAN : sessionAnswerSet(h, ok)
  \/ \E query \in AnswerQueries : getAnswerRequest(query)
  \/ \E h \in BagToSet(handlers), ok \in BOOLEAN : getAnswerGet(h, ok)

Spec == Init /\ [][Next]_vars

\* ---------------------------------------------------------------- the validator alone
\* Session IDs of the lengths around the validator's limits, over two characters.
IDLengths ==
  {0, 1, 2, 3, MaxIDLength \div 2, MaxIDLength - 1, MaxIDLength,
   MaxIDLength + 1, MaxIDLength + 2, 2 * MaxIDLength}
IDOfLengthOver(n, c) == [i \in 1..n |-> c]
ValidatorIDs ==
  {undefined} \cup {Some(IDOfLengthOver(n, c)) : n \in IDLengths, c \in {"a", "Z"}}
ValidatorQueries == [sessionID : ValidatorIDs]

\* getAnswer, the function whose only input is the session ID, on these IDs.
NextValidator ==
  \/ \E query \in ValidatorQueries : getAnswerRequest(query)
  \/ \E h \in BagToSet(handlers), ok \in BOOLEAN : getAnswerGet(h, ok)

SpecValidator == Init /\ [][NextValidator]_vars

\* ================================================================ properties
\* Steps, read off a pair of states.  h is a handler in flight before the step.

\* The handler h ends in this step.
completes(h) == BagIn(h, handlers) /\ handlers' = finish(h)

\* The handler h goes from its get to its set in this step.
proceeds(h) ==
  /\ BagIn(h, handlers)
  /\ h.pc = "get"
  /\ handlers' = finish(h) (+) SetToBag({[h EXCEPT !.pc = "set"]})

\* The get of h returns the document state of this moment.
getOfferReads(h) ==
  h.op = "getOffer" /\ completes(h) /\ sent'.response # unhandledRejection

sessionAnswerReads(h) ==
  /\ h.op = "sessionAnswer"
  /\ h.pc = "get"
  /\ proceeds(h) \/ (completes(h) /\ sent'.response # unhandledRejection)

getAnswerReads(h) ==
  h.op = "getAnswer" /\ completes(h) /\ sent'.response # unhandledRejection

\* The set of h commits.
sessionOfferCommits(h) ==
  h.op = "sessionOffer" /\ completes(h) /\ sent'.response = Acknowledged

sessionAnswerCommits(h) ==
  h.op = "sessionAnswer" /\ h.pc = "set" /\ completes(h) /\ sent'.response = Acknowledged

\* The fields of the document of id, before and after the step.
stored(id, field) == fieldOf(snapshotOf(store, id), field)
storedAfter(id, field) == fieldOf(snapshotOf(store', id), field)

\* The field of the data of the last committed sessionOffer / sessionAnswer of id.
lastPublished(id, field) == published[id][1][field]
lastAnswered(id) == answered[id][1]["answer"]

\* ---------------------------------------------------------------- C1
\* C1: when the last committed sessionOffer on a session published offer o with
\* no password, a getOffer with no password (read as "") whose get returns
\* responds with success and exactly o.
C1_PublishThenFetch ==
  [][\A h \in BagToSet(handlers) :
       ( /\ getOfferReads(h)
         /\ h.requestPassword = ""
         /\ published[h.sessionID] # undefined
         /\ lastPublished(h.sessionID, "password") = "" )
       => sent' = reply("getOffer",
                        sendSuccessResponse(Some(lastPublished(h.sessionID, "offer"))), FALSE)]_vars

\* A getOffer has just returned the offer of a session published without password.
C1_Witness ==
  \E id \in ValidIDs :
    /\ published[id] # undefined
    /\ lastPublished(id, "password") = ""
    /\ sent.op = "getOffer"
    /\ sent.response.success
    /\ sent.response.data = Some(lastPublished(id, "offer"))
    /\ lastPublished(id, "offer") \in {"o1", "o2"}

\* ---------------------------------------------------------------- C2
\* C2: a getOffer whose get returns a document with stored password p, for the
\* request password q, responds PasswordMismatch when p is non-empty and q
\* differs from p, and otherwise (q = p, or p empty whatever q) with success
\* and the stored offer.
C2_PasswordGating ==
  [][\A h \in BagToSet(handlers) :
       ( /\ getOfferReads(h)
         /\ h.sessionID \in DOMAIN store
         /\ stored(h.sessionID, "password") # undefined )
       => LET p == stored(h.sessionID, "password")[1]
              q == h.requestPassword
          IN sent'.response =
               IF p # "" /\ q # p
                 THEN PasswordMismatch
                 ELSE sendSuccessResponse(stored(h.sessionID, "offer"))]_vars

\* A getOffer has just been refused on a session whose stored password is not empty.
C2_Witness ==
  \E id \in DOMAIN store :
    /\ Truthy(stored(id, "password"))
    /\ sent.op = "getOffer"
    /\ sent.response = PasswordMismatch

\* ---------------------------------------------------------------- C3
\* C3: when a sessionOffer has committed on a session and the last committed
\* sessionAnswer on it published the non-empty answer a, a getAnswer whose get
\* returns responds with success and exactly a.
C3_AnswerThenFetch ==
  [][\A h \in BagToSet(handlers) :
       ( /\ getAnswerReads(h)
         /\ published[h.sessionID] # undefined
         /\ answered[h.sessionID] # undefined
         /\ lastAnswered(h.sessionID) # "" )
       => sent' = reply("getAnswer",
                        sendSuccessResponse(Some(lastAnswered(h.sessionID))), FALSE)]_vars

\* A getAnswer has just returned the answer published last.
C3_Witness ==
  \E id \in ValidIDs :
    /\ published[id] # undefined
    /\ answered[id] # undefined
    /\ lastAnswered(id) \in {"a1", "a2"}
    /\ sent.op = "getAnswer"
    /\ sent.response.success
    /\ sent.response.data = Some(lastAnswered(id))

\* ---------------------------------------------------------------- C4
\* C4: on a valid session ID that has no document, a getOffer and a
\* sessionAnswer whose get returns respond SessionNotFound, a getAnswer
\* SessionDoesNotExist; the handler ends there (no set follows) and the session
\* ID still has no document.
C4_NoRecordNotFound ==
  [][\A h \in BagToSet(handlers) :
       (h.sessionID \notin DOMAIN store /\ isValidSessionID(h.sessionID))
       => /\ getOfferReads(h) => sent' = reply("getOffer", SessionNotFound, FALSE)
          /\ sessionAnswerReads(h) =>
               completes(h) /\ sent' = reply("sessionAnswer", SessionNotFound, FALSE)
          /\ getAnswerReads(h) => sent' = reply("getAnswer", SessionDoesNotExist, FALSE)
          /\ (getOfferReads(h) \/ sessionAnswerReads(h) \/ getAnswerReads(h))
               => h.sessionID \notin DOMAIN store']_vars

\* A sessionAnswer has just been refused for a session that has no document.
C4_Witness ==
  /\ sent = reply("sessionAnswer", SessionNotFound, FALSE)
  /\ DOMAIN store = {}

\* ---------------------------------------------------------------- C5
\* C5: a sessionOffer set that commits on a session that already has a document
\* replaces the document's offer and password by those of the call and leaves
\* its answer field as it was (present with the same value, or absent).
C5_RepublishKeepsAnswer ==
  [][\A h \in BagToSet(handlers) :
       (sessionOfferCommits(h) /\ h.sessionID \in DOMAIN store)
       => /\ h.sessionID \in DOMAIN store'
          /\ storedAfter(h.sessionID, "offer") = Some(h.offer["offer"])
          /\ storedAfter(h.sessionID, "password") = Some(h.offer["password"])
          /\ storedAfter(h.sessionID, "answer") = stored(h.sessionID, "answer")]_vars

\* A sessionOffer has just committed on a session that holds a published answer.
C5_Witness ==
  \E id \in DOMAIN store :
    /\ sent = reply("sessionOffer", Acknowledged, FALSE)
    /\ stored(id, "answer") = Some("a1")
    /\ stored(id, "offer") = Some("o2")
    /\ stored(id, "password") = Some("q")

\* ---------------------------------------------------------------- C6
\* C6: however the gets and sets of concurrent sessionAnswer calls interleave,
\* each set that commits makes the document's answer its own payload and leaves
\* offer and password as they were, so that the answer is at all times the
\* payload of the set that committed last.
C6_LastAnswerWins ==
  /\ [](\A id \in ValidIDs :
          answered[id] # undefined => stored(id, "answer") = Some(lastAnswered(id)))
  /\ [][\A h \in BagToSet(handlers) :
          sessionAnswerCommits(h)
          => /\ storedAfter(h.sessionID, "answer") = Some(h.answer["answer"])
             /\ storedAfter(h.sessionID, "offer") = stored(h.sessionID, "offer")
             /\ storedAfter(h.sessionID, "password") = stored(h.sessionID, "password")]_vars

\* Two sessionAnswer calls with different payloads are both past their get; the
\* set of one has just committed and its payload is the answer, the other's set
\* is still to come.
C6_Witness ==
  \E id \in DOMAIN store :
    /\ sent = reply("sessionAnswer", Acknowledged, TRUE)
    /\ \E g \in BagToSet(handlers) :
         /\ g.pc = "set"
         /\ g.op = "sessionAnswer"
         /\ g.sessionID = id
         /\ Truthy(Some(g.answer["answer"]))
         /\ Truthy(stored(id, "answer"))
         /\ stored(id, "answer") # Some(g.answer["answer"])

\* ---------------------------------------------------------------- C7
\* C7, as claimed: once a sessionAnswer has committed on a session, no step
\* changes the document's answer.
C7_AnswerSetOnce ==
  [][\A id \in ValidIDs :
       answered[id] # undefined => storedAfter(id, "answer") = stored(id, "answer")]_vars

\* C7, amended: the answer of a document changes only in the step in which a
\* sessionAnswer set commits on it, and then to that call's payload; no
\* sessionOffer, getOffer or getAnswer step changes it.
C7_AnswerChangedOnlyByAnswer ==
  [][\A id \in ValidIDs :
       storedAfter(id, "answer") # stored(id, "answer")
       => \E h \in BagToSet(handlers) :
            /\ sessionAnswerCommits(h)
            /\ h.sessionID = id
            /\ storedAfter(id, "answer") = Some(h.answer["answer"])]_vars

\* A sessionOffer has just committed after an answer was published, and the
\* answer is still the one published last.
C7_Witness ==
  \E id \in ValidIDs :
    /\ answered[id] # undefined
    /\ Truthy(Some(lastAnswered(id)))
    /\ sent = reply("sessionOffer", Acknowledged, FALSE)
    /\ stored(id, "answer") = Some(lastAnswered(id))

\* ---------------------------------------------------------------- C8
\* C8, as claimed: the password of an existing document is the same after every step.
C8_PasswordImmutable ==
  [][\A id \in DOMAIN store :
       storedAfter(id, "password") = stored(id, "password")]_vars

\* C8, amended: the password of an existing document changes only in the step
\* in which a sessionOffer set commits on it, and then to that call's password;
\* no sessionAnswer, getOffer or getAnswer step changes it.
C8_PasswordChangedOnlyByOffer ==
  [][\A id \in DOMAIN store :
       storedAfter(id, "password") # stored(id, "password")
       => \E h \in BagToSet(handlers) :
            /\ sessionOfferCommits(h)
            /\ h.sessionID = id
            /\ storedAfter(id, "password") = Some(h.offer["password"])]_vars

\* A sessionAnswer has just committed on a session with a non-empty password,
\* and the password is still the one published last.
C8_Witness ==
  \E id \in DOMAIN store :
    /\ sent.op = "sessionAnswer"
    /\ sent.response = Acknowledged
    /\ Truthy(stored(id, "password"))
    /\ stored(id, "password") = Some(lastPublished(id, "password"))

\* ---------------------------------------------------------------- C9
\* C9: a session ID has a document exactly when a sessionOffer set has
\* committed on it; only the step in which a sessionOffer set commits adds a
\* document (its own), and no step removes one.
C9_RecordIffOfferPublished ==
  /\ [](DOMAIN store = {id \in ValidIDs : published[id] # undefined})
  /\ [][/\ DOMAIN store \subseteq DOMAIN store'
        /\ DOMAIN store' # DOMAIN store
           => \E h \in BagToSet(handlers) :
                /\ sessionOfferCommits(h)
                /\ DOMAIN store' = DOMAIN store \cup {h.sessionID}]_vars

\* The first sessionOffer of a session has just committed: the document exists,
\* with no answer field yet.
C9_Witness ==
  \E id \in DOMAIN store :
    /\ published[id] # undefined
    /\ answered[id] = undefined
    /\ stored(id, "answer") = undefined
    /\ sent = reply("sessionOffer", Acknowledged, FALSE)

\* ---------------------------------------------------------------- C10
\* C10: every document has a non-empty offer, no sessionAnswer responds
\* OfferNotFound, and a successful getOffer returns a non-empty offer.
C10_OfferAlwaysPresent ==
  /\ \A id \in DOMAIN store : Truthy(stored(id, "offer"))
  /\ sent # reply("sessionAnswer", OfferNotFound, FALSE)
  /\ (sent.op = "getOffer" /\ sent.response.success) => Truthy(sent.response.data)

\* A getOffer has just succeeded on a session whose document has an answer.
C10_Witness ==
  \E id \in DOMAIN store :
    /\ stored(id, "answer") # undefined
    /\ sent.op = "getOffer"
    /\ sent.response.success

\* ---------------------------------------------------------------- C11
\* A step of a getOffer or getAnswer handler: it responds, or it starts its get.
readStep ==
  \/ sent'.op \in {"getOffer", "getAnswer"}
  \/ \E h \in BagToSet(handlers') :
       h.op \in {"getOffer", "getAnswer"} /\ handlers' = start(h)

\* C11: no step of getOffer or getAnswer changes the store, whatever it
\* responds; and a getAnswer whose get returns right after another getAnswer
\* responded for the same session (no write in between) responds the same.
C11_ReadsLeaveStore ==
  [][/\ readStep => store' = store
     /\ \A h \in BagToSet(handlers) :
          ( /\ getAnswerReads(h)
            /\ sent.op = "getAnswer"
            /\ sent.response \notin {unhandledRejection, InvalidIdentifier} )
          => sent'.response = sent.response]_vars

\* A getAnswer has just returned the answer while another getAnswer is in flight.
C11_Witness ==
  /\ sent.op = "getAnswer"
  /\ sent.response.success
  /\ \E h \in BagToSet(handlers) : h.op = "getAnswer" /\ h.pc = "get"

\* ---------------------------------------------------------------- C12
\* C12: the store changes only in the step in which a sessionOffer or
\* sessionAnswer set commits and the handler acknowledges; a step in which
\* sessionOffer or sessionAnswer sends a failure leaves the store as it is.
C12_NoPartialEffects ==
  [][/\ store' # store
        => \E h \in BagToSet(handlers) : sessionOfferCommits(h) \/ sessionAnswerCommits(h)
     /\ (sent'.op \in {"sessionOffer", "sessionAnswer"} /\ ~sent'.response.success)
        => store' = store]_vars

\* A sessionOffer has just failed on the store, and the document still holds
\* what was published last.
C12_Witness ==
  \E id \in DOMAIN store :
    /\ sent = reply("sessionOffer", StorageFailure, FALSE)
    /\ published[id] # undefined
    /\ stored(id, "offer") = Some(lastPublished(id, "offer"))
    /\ stored(id, "password") = Some(lastPublished(id, "password"))

\* ---------------------------------------------------------------- C13
\* C13: in each function, a get or a set that rejects makes the handler respond
\* StorageFailure (status 500).
C13_StoreFailureSurfaced ==
  [][\A h \in BagToSet(handlers) :
       ( \/ getOfferGet(h, FALSE)
         \/ sessionAnswerGet(h, FALSE)
         \/ getAnswerGet(h, FALSE)
         \/ sessionOfferSet(h, FALSE)
         \/ sessionAnswerSet(h, FALSE) )
       => sent'.response = StorageFailure]_vars

\* ---------------------------------------------------------------- C14
\* C14: a request is accepted by the validator (its handler goes on to its get)
\* exactly when the length of its session ID is between 1 and 100, whatever its
\* characters; every other request is rejected as InvalidIdentifier.
C14_ValidatorLengths ==
  [][\A query \in ValidatorQueries :
       getAnswerRequest(query)
       => LET sessionID == sessionIDOf(query.sessionID)
          IN IF 1 <= Len(sessionID) /\ Len(sessionID) <= 100
               THEN /\ sent' = silent
                    /\ handlers' = start(awaiting("get", "getAnswer", sessionID, "", noFields, noFields))
               ELSE /\ sent' = reply("getAnswer", InvalidIdentifier, FALSE)
                    /\ handlers' = handlers]_vars

\* A session ID of length 100 was accepted, and another request has just been rejected.
C14_Witness ==
  /\ sent = reply("getAnswer", InvalidIdentifier, FALSE)
  /\ \E h \in BagToSet(handlers) : Len(h.sessionID) = 100

\* ---------------------------------------------------------------- C15
\* C15: a getAnswer whose get returns never responds PasswordMismatch, and it
\* returns the stored answer whenever that is present and non-empty, whatever
\* the stored password.
C15_AnswerNotGated ==
  [][\A h \in BagToSet(handlers) :
       getAnswerReads(h)
       => /\ sent'.response # PasswordMismatch
          /\ Truthy(stored(h.sessionID, "answer"))
             => sent' = reply("getAnswer", sendSuccessResponse(stored(h.sessionID, "answer")), FALSE)]_vars

\* A getAnswer has just returned the answer of a session with a non-empty password.
C15_Witness ==
  \E id \in DOMAIN store :
    /\ Truthy(stored(id, "password"))
    /\ Truthy(stored(id, "answer"))
    /\ sent = reply("getAnswer", sendSuccessResponse(stored(id, "answer")), FALSE)

\* ---------------------------------------------------------------- C16
\* C16: a getAnswer whose get returns an existing document responds
\* AnswerNotFound exactly when the answer field is absent or empty; and a
\* sessionAnswer with an absent or empty answer is not refused for it: it goes
\* on to its set, which stores the empty string.
C16_AnswerNotFoundWhenEmpty ==
  [][\A h \in BagToSet(handlers) :
       /\ (getAnswerReads(h) /\ h.sessionID \in DOMAIN store)
          => (sent'.response = AnswerNotFound <=> ~Truthy(stored(h.sessionID, "answer")))
       /\ ( /\ sessionAnswerReads(h)
            /\ h.answer = answerData(undefined)
            /\ h.sessionID \in DOMAIN store
            /\ ~(Truthy(stored(h.sessionID, "password"))
                 /\ h.requestPassword # Coalesce(stored(h.sessionID, "password"))) )
          => proceeds(h)
       /\ (sessionAnswerCommits(h) /\ h.answer = answerData(undefined))
          => storedAfter(h.sessionID, "answer") = Some("")]_vars

\* A sessionAnswer with an empty answer has committed, and getAnswer has just
\* responded AnswerNotFound on the empty answer.
C16_Witness ==
  \E id \in DOMAIN store :
    /\ answered[id] # undefined
    /\ stored(id, "answer") = Some("")
    /\ sent = reply("getAnswer", AnswerNotFound, FALSE)

\* ---------------------------------------------------------------- C17
\* The session ID of a request is empty or longer than 100.
invalidID(v) == Len(sessionIDOf(v)) = 0 \/ Len(sessionIDOf(v)) > 100

\* The requests with an invalid session ID, with every value of their other fields.
InvalidOfferBodies == {body \in OfferBodies : invalidID(body.sessionID)}
InvalidOfferQueries == {query \in OfferQueries : invalidID(query.sessionID)}
InvalidAnswerBodies == {body \in AnswerBodies : invalidID(body.sessionID)}
InvalidAnswerQueries == {query \in AnswerQueries : invalidID(query.sessionID)}

\* The request is refused as InvalidIdentifier before any use of the store.
refusedAsInvalid(op) ==
  /\ sent' = reply(op, InvalidIdentifier, FALSE)
  /\ handlers' = handlers
  /\ store' = store

\* C17: in each function a request with an invalid session ID is refused as
\* InvalidIdentifier, whatever its other fields (for sessionOffer also an empty
\* offer) and whatever the store holds, and no get or set is issued.
C17_ValidationFirst ==
  [][/\ \A body \in InvalidOfferBodies :
          sessionOfferRequest(body) => refusedAsInvalid("sessionOffer")
     /\ \A query \in InvalidOfferQueries :
          getOfferRequest(query) => refusedAsInvalid("getOffer")
     /\ \A body \in InvalidAnswerBodies :
          sessionAnswerRequest(body) => refusedAsInvalid("sessionAnswer")
     /\ \A query \in InvalidAnswerQueries :
          getAnswerRequest(query) => refusedAsInvalid("getAnswer")]_vars

\* A sessionOffer has just been refused as InvalidIdentifier while the store holds a document.
C17_Witness ==
  /\ sent = reply("sessionOffer", InvalidIdentifier, FALSE)
  /\ DOMAIN store # {}

\* ---------------------------------------------------------------- C18
\* C18: a session that is in AnswerPublished (its document has a non-empty
\* answer, the state in which getAnswer succeeds) is in AnswerPublished after
\* every step.
C18_AnswerPublishedTerminal ==
  [][\A id \in ValidIDs :
       Truthy(stored(id, "answer")) => Truthy(storedAfter(id, "answer"))]_vars

\* ---------------------------------------------------------------- C19
\* The get of a getOffer or sessionAnswer returns, and the request password is
\* wrong for the non-empty stored password.
readsWithWrongPassword(h) ==
  /\ getOfferReads(h) \/ sessionAnswerReads(h)
  /\ Truthy(stored(h.sessionID, "password"))
  /\ h.requestPassword # Coalesce(stored(h.sessionID, "password"))

\* C19, as claimed: a wrong password on an existing protected session gets the
\* response that a session ID with no document gets.
C19_MismatchLikeNotFound ==
  [][\A h \in BagToSet(handlers) :
       readsWithWrongPassword(h) => sent'.response = SessionNotFound]_vars

\* C19, amended: a wrong password on an existing protected session gets
\* PasswordMismatch (403), the same whatever the wrong password and with no
\* data of the document, and that response differs from the SessionNotFound
\* (404) a session ID with no document gets.
C19_MismatchDistinctFromNotFound ==
  [][\A h \in BagToSet(handlers) :
       /\ readsWithWrongPassword(h)
          => /\ sent' = reply(h.op, PasswordMismatch, FALSE)
             /\ sent'.response # SessionNotFound
             /\ sent'.response.data = undefined
       /\ ((getOfferReads(h) \/ sessionAnswerReads(h)) /\ h.sessionID \notin DOMAIN store)
          => /\ sent' = reply(h.op, SessionNotFound, FALSE)
             /\ sent'.response # PasswordMismatch]_vars

\* A sessionAnswer has just been refused for its password on a protected session.
C19_Witness ==
  \E id \in DOMAIN store :
    /\ Truthy(stored(id, "password"))
    /\ sent = reply("sessionAnswer", PasswordMismatch, FALSE)

\* ---------------------------------------------------------------- C20
\* C20: when a sessionAnswer set commits, the stored password of that moment is
\* empty or equal to the request password of the call.
C20_PasswordAtCommit ==
  [][\A h \in BagToSet(handlers) :
       sessionAnswerCommits(h)
       => ~( /\ Truthy(stored(h.sessionID, "password"))
             /\ h.requestPassword # Coalesce(stored(h.sessionID, "password")) )]_vars

====
